---------------------------- MODULE Spec2Model ----------------------------
(***************************************************************************)
(* UAV strategic deconfliction (2D and 3D/4D variants).                    *)
(*                                                                         *)
(* The two source files hold the same algorithm; they differ in the number *)
(* of coordinates of a waypoint: (x, y, t) in the 2D file, (x, y, z, t) in *)
(* the 3D file.  A waypoint is modelled as a tuple whose last component is *)
(* the timestamp and whose other components are the coordinates, so the    *)
(* operators below read p[Len(p)] where the 2D file reads p[2] and the 3D  *)
(* file reads p[3] (0-based).                                              *)
(*                                                                         *)
(* Numbers: Python floats are modelled by exact rationals <<n, d>> in      *)
(* lowest terms with d > 0.  math.sqrt is kept symbolic, a distance being  *)
(* the record [sq |-> q] that stands for sqrt(q); comparisons and rounding *)
(* of a distance are computed from q.  round(v, 2) is modelled as          *)
(* round-half-to-even of the exact value, which is what Python does for    *)
(* the exact value of the float it is given; the two differ only when the  *)
(* exact value is a tie x.xx5 that binary floating point cannot represent. *)
(*                                                                         *)
(* The one place where float rounding changes the control flow is the loop *)
(* test t <= end_time after repeated t += effective_step: when the step is *)
(* not a binary fraction (duration / 20 for an integer duration), the sum  *)
(* that is end_time in exact arithmetic lands on end_time or just above    *)
(* it, depending on start_time and the step.  The variable overshoot holds *)
(* the windows where it lands above, and Init draws every possibility.     *)
(***************************************************************************)
EXTENDS Integers, Sequences, FiniteSets, TLC

VARIABLES
    all_drones_paths,   \* the fleet: a sequence of <<name, raw waypoint list>> (dict in insertion order)
    safety_distance,    \* argument of check_all_paths_conflict
    time_step,          \* argument of check_all_paths_conflict
    report,             \* what check_all_paths_conflict returned
    compared,           \* the pairs <<d1, d2>> the pair loop visited, in order (ghost)
    sampled,            \* the iterations of the sampling loop, in order (ghost)
    overshoot,          \* the <<start_time, end_time, effective_step>> whose float sum passes end_time
    path,               \* a time-sorted trajectory handed to get_position_at_time
    query_t,            \* the time handed to get_position_at_time
    position,           \* what get_position_at_time returned (None when absent)
    pc                  \* "input" before the call, "detected" / "queried" after it

vars == <<all_drones_paths, safety_distance, time_step, report, compared, sampled,
          overshoot, path, query_t, position, pc>>

---------------------------------------------------------------------------
(* Bounds of the model.                                                    *)
MaxTime == 2
MaxLen == 3

(* Program constants.                                                      *)
AdaptiveDivisor == 20
RoundDigits == 2

(* Python's None (falsy, like the empty tuple that stands for it here).     *)
None == <<>>

---------------------------------------------------------------------------
(* Exact rational arithmetic standing for float arithmetic.                *)
Abs(x) == IF x < 0 THEN -x ELSE x

RECURSIVE GCD(_, _)
GCD(a, b) == IF b = 0 THEN a ELSE GCD(b, a % b)

Reduce(n, d, g) == <<n \div g, d \div g>>

Rat(n, d) == Reduce(IF d < 0 THEN -n ELSE n, Abs(d), GCD(Abs(n), Abs(d)))

FromInt(n) == <<n, 1>>
Zero == FromInt(0)

RAdd(a, b) == Rat(a[1] * b[2] + b[1] * a[2], a[2] * b[2])
RSub(a, b) == Rat(a[1] * b[2] - b[1] * a[2], a[2] * b[2])
RMul(a, b) == Rat(a[1] * b[1], a[2] * b[2])
RDiv(a, b) == Rat(a[1] * b[2], a[2] * b[1])
RLe(a, b) == a[1] * b[2] <= b[1] * a[2]
RLt(a, b) == a[1] * b[2] < b[1] * a[2]
RMax(a, b) == IF RLt(a, b) THEN b ELSE a
RMin(a, b) == IF RLt(b, a) THEN b ELSE a

(* A float holds a binary fraction: sums of these (of the small magnitudes *)
(* used here) are exact, sums of other values are rounded.                 *)
RECURSIVE IsPowerOfTwo(_)
IsPowerOfTwo(d) == d = 1 \/ (d % 2 = 0 /\ IsPowerOfTwo(d \div 2))

Representable(q) == IsPowerOfTwo(q[2])

RECURSIVE Pow10(_)
Pow10(k) == IF k = 0 THEN 1 ELSE 10 * Pow10(k - 1)

(* floor(sqrt(n)) for a natural n, by bisection on lo^2 <= n < hi^2.       *)
RECURSIVE ISqrtBetween(_, _, _)
ISqrtBetween(n, lo, hi) ==
    IF hi - lo <= 1 THEN lo
    ELSE IF ((lo + hi) \div 2) * ((lo + hi) \div 2) <= n
         THEN ISqrtBetween(n, (lo + hi) \div 2, hi)
         ELSE ISqrtBetween(n, lo, (lo + hi) \div 2)

RECURSIVE UpperFor(_, _)
UpperFor(n, hi) == IF hi * hi > n THEN hi ELSE UpperFor(n, 2 * hi)

ISqrt(n) == ISqrtBetween(n, 0, UpperFor(n, 1))

(* round(v, 2) of a rational v: the nearest multiple of 1/100, a tie going *)
(* to the even multiple.                                                   *)
HalfEven(a, d, f) ==
    IF 2 * (a - f * d) < d THEN f
    ELSE IF 2 * (a - f * d) > d THEN f + 1
    ELSE IF f % 2 = 0 THEN f ELSE f + 1

Round(v, digits) ==
    Rat(HalfEven(Pow10(digits) * v[1], v[2], (Pow10(digits) * v[1]) \div v[2]),
        Pow10(digits))

(* round(math.sqrt(q), 2) for a rational q >= 0.  With X = scale^2 * q and *)
(* m = floor(sqrt(4X)), the nearest integer to sqrt(X) is (m + 1) div 2;   *)
(* sqrt(X) is a tie k + 1/2 exactly when 4X = (2k + 1)^2.                  *)
NearestToRoot(num, d, fl, m) ==
    IF (fl * d = num) /\ (m * m = fl) /\ (m % 2 = 1) /\ (((m - 1) \div 2) % 2 = 0)
    THEN (m - 1) \div 2
    ELSE (m + 1) \div 2

RootOfFloor(num, d, fl) == NearestToRoot(num, d, fl, ISqrt(fl))

RoundSqrt(q, digits) ==
    Rat(RootOfFloor(4 * Pow10(digits) * Pow10(digits) * q[1], q[2],
                    (4 * Pow10(digits) * Pow10(digits) * q[1]) \div q[2]),
        Pow10(digits))

(* math.sqrt(q), kept symbolic.                                            *)
Sqrt(q) == [sq |-> q]

(* dist <= r for dist = sqrt(dist.sq).                                     *)
SqrtLe(dist, r) == RLe(Zero, r) /\ RLe(dist.sq, RMul(r, r))

---------------------------------------------------------------------------
(* Waypoints: <<coordinate, ..., timestamp>>.                              *)
Timestamp(p) == p[Len(p)]
Dim(p) == Len(p) - 1

RECURSIVE SumSquares(_, _, _)
Square(v) == RMul(v, v)

SumSquares(p1, p2, k) ==
    IF k = 0 THEN Zero
    ELSE RAdd(SumSquares(p1, p2, k - 1), Square(RSub(p1[k], p2[k])))

distance_2d(p1, p2) == Sqrt(SumSquares(p1, p2, 2))

distance_3d(p1, p2) == Sqrt(SumSquares(p1, p2, 3))

(* sorted(path, key = timestamp): stable, so waypoints with equal          *)
(* timestamps keep their input order.                                      *)
RECURSIVE InsertByTime(_, _)
InsertByTime(sortedPath, p) ==
    IF sortedPath = <<>> THEN <<p>>
    ELSE IF RLt(Timestamp(p), Timestamp(sortedPath[Len(sortedPath)]))
         THEN Append(InsertByTime(SubSeq(sortedPath, 1, Len(sortedPath) - 1), p),
                     sortedPath[Len(sortedPath)])
         ELSE Append(sortedPath, p)

RECURSIVE sort_path_by_time(_)
sort_path_by_time(raw) ==
    IF raw = <<>> THEN <<>>
    ELSE InsertByTime(sort_path_by_time(SubSeq(raw, 1, Len(raw) - 1)), raw[Len(raw)])

(* Mutant of interpolate: the segment's start position, whatever t.        *)
interpolate_hold(p_start, p_end, t) == [k \in 1..Dim(p_start) |-> p_start[k]]

Lerp(p_start, p_end, ratio) ==
    [k \in 1..Dim(p_start) |-> RAdd(p_start[k], RMul(ratio, RSub(p_end[k], p_start[k])))]

interpolate(p_start, p_end, t) ==
    IF Timestamp(p_end) = Timestamp(p_start)
    THEN [k \in 1..Dim(p_start) |-> p_start[k]]
    ELSE Lerp(p_start, p_end,
              RDiv(RSub(t, Timestamp(p_start)), RSub(Timestamp(p_end), Timestamp(p_start))))

(* Mutant of FirstSegment: path[i].t <= t < path[i+1].t.                   *)
RECURSIVE FirstSegmentOpenEnd(_, _, _)
FirstSegmentOpenEnd(pth, t, i) ==
    IF i > Len(pth) - 1 THEN 0
    ELSE IF RLe(Timestamp(pth[i]), t) /\ RLt(t, Timestamp(pth[i + 1])) THEN i
    ELSE FirstSegmentOpenEnd(pth, t, i + 1)

(* The first segment i (1-based) with path[i].t <= t <= path[i+1].t, or 0. *)
RECURSIVE FirstSegment(_, _, _)
FirstSegment(pth, t, i) ==
    IF i > Len(pth) - 1 THEN 0
    ELSE IF RLe(Timestamp(pth[i]), t) /\ RLe(t, Timestamp(pth[i + 1])) THEN i
    ELSE FirstSegment(pth, t, i + 1)

PositionInSegment(pth, t, i) ==
    IF i = 0 THEN None ELSE interpolate(pth[i], pth[i + 1], t)

get_position_at_time(pth, t) == PositionInSegment(pth, t, FirstSegment(pth, t, 1))

---------------------------------------------------------------------------
(* check_all_paths_conflict.  The fleet is a sequence of <<name, raw       *)
(* waypoint list>> with distinct names: a dict in insertion order.         *)
drone_names(fleet) == [k \in 1..Len(fleet) |-> fleet[k][1]]

PathOf(fleet, name) == fleet[CHOOSE k \in 1..Len(fleet) : fleet[k][1] = name][2]

(* The 2D file calls distance_2d, the 3D file distance_3d.                 *)
distance(pos1, pos2) ==
    IF Len(pos1) = 2 THEN distance_2d(pos1, pos2) ELSE distance_3d(pos1, pos2)

(* Mutant of FirstPartner: range(i, len(drone_names)).                     *)
FirstPartnerSelf(i) == i

(* range(i + 1, len(drone_names)) starts at i + 1.                         *)
FirstPartner(i) == i + 1

(* Mutant of IsDegenerate: only the first trajectory is tested.            *)
IsDegenerateFirstOnly(path1, path2) == Len(path1) < 2

IsDegenerate(path1, path2) == Len(path1) < 2 \/ Len(path2) < 2

(* Mutant of StartTime: the first trajectory's first timestamp.            *)
StartTimeOfFirst(path1, path2) == Timestamp(path1[1])

StartTime(path1, path2) == RMax(Timestamp(path1[1]), Timestamp(path2[1]))

EndTime(path1, path2) ==
    RMin(Timestamp(path1[Len(path1)]), Timestamp(path2[Len(path2)]))

(* Mutants of EffectiveStep: the step is replaced as soon as twice the     *)
(* step reaches the duration; the duration is divided by 10.               *)
EffectiveStepEarly(step, mission_duration) ==
    IF RLe(mission_duration, RMul(FromInt(2), step))
    THEN RDiv(mission_duration, FromInt(AdaptiveDivisor))
    ELSE step

EffectiveStepTenth(step, mission_duration) ==
    IF RLe(mission_duration, step)
    THEN RDiv(mission_duration, FromInt(10))
    ELSE step

EffectiveStep(step, mission_duration) ==
    IF RLe(mission_duration, step)
    THEN RDiv(mission_duration, FromInt(AdaptiveDivisor))
    ELSE step

(* Mutant of FirstSampleTime: t = start_time.                              *)
FirstSampleAtStart(start_time, effective_step) == start_time

FirstSampleTime(start_time, effective_step) == RAdd(start_time, effective_step)

(* while t <= end_time, for the t reached from start_time by repeated      *)
(* t += effective_step.                                                    *)
InWindow(t, start_time, end_time, effective_step) ==
    \/ RLt(t, end_time)
    \/ t = end_time /\ <<start_time, end_time, effective_step>> \notin overshoot

(* Mutant of IsConflict: dist >= safety_distance.                          *)
IsConflictReversed(dist, safety) == ~RLt(dist.sq, RMul(safety, safety))

IsConflict(dist, safety) == SqrtLe(dist, safety)

ConflictEvent(t, pos1, dist, d1, d2) ==
    [time |-> Round(t, RoundDigits),
     location |-> [k \in 1..Len(pos1) |-> Round(pos1[k], RoundDigits)],
     distance |-> RoundSqrt(dist.sq, RoundDigits),
     between |-> <<d1, d2>>]

(* The state of a call: the conflicts list, the exception that ended the   *)
(* call (NoError while it runs), and the ghost lists.                      *)
NoError == "none"

EmptyAcc == [conflicts |-> <<>>, raised |-> NoError, compared |-> <<>>, sampled |-> <<>>]

(* The while loop of one pair: its exit test, the two lookups, the         *)
(* distance test, the append, and t += effective_step.  An exception ends  *)
(* the loop.                                                               *)
Sampled(acc, d1, d2, t, hit) ==
    [acc EXCEPT !.sampled = Append(acc.sampled, [between |-> <<d1, d2>>, t |-> t, hit |-> hit])]

Emit(acc, d1, d2, t, pos1, dist, hit) ==
    IF hit
    THEN Sampled([acc EXCEPT !.conflicts = Append(acc.conflicts,
                                                  ConflictEvent(t, pos1, dist, d1, d2))],
                 d1, d2, t, TRUE)
    ELSE Sampled(acc, d1, d2, t, FALSE)

Measure(acc, d1, d2, t, pos1, dist, safety) ==
    Emit(acc, d1, d2, t, pos1, dist, IsConflict(dist, safety))

SampleBody(acc, d1, d2, t, pos1, pos2, safety) ==
    IF pos1 # None /\ pos2 # None
    THEN Measure(acc, d1, d2, t, pos1, distance(pos1, pos2), safety)
    ELSE Sampled(acc, d1, d2, t, FALSE)

RECURSIVE SampleLoop(_, _, _, _, _, _, _, _, _, _)
SampleLoop(path1, path2, d1, d2, t, start_time, end_time, effective_step, safety, acc) ==
    IF acc.raised # NoError \/ ~InWindow(t, start_time, end_time, effective_step) THEN acc
    ELSE SampleLoop(path1, path2, d1, d2, RAdd(t, effective_step), start_time, end_time,
                    effective_step, safety,
                    SampleBody(acc, d1, d2, t, get_position_at_time(path1, t),
                               get_position_at_time(path2, t), safety))

(* The body of the pair loop for drone_names[i], drone_names[j].  path[0]  *)
(* of an empty list raises IndexError.                                     *)
Compared(acc, d1, d2) == [acc EXCEPT !.compared = Append(acc.compared, <<d1, d2>>)]

SampleFrom(path1, path2, d1, d2, start_time, end_time, effective_step, safety, acc) ==
    IF RLe(effective_step, Zero) THEN acc
    ELSE SampleLoop(path1, path2, d1, d2, FirstSampleTime(start_time, effective_step),
                    start_time, end_time, effective_step, safety, acc)

Window(path1, path2, d1, d2, start_time, end_time, mission_duration, safety, step, acc) ==
    IF RLe(mission_duration, Zero) THEN acc
    ELSE SampleFrom(path1, path2, d1, d2, start_time, end_time,
                    EffectiveStep(step, mission_duration), safety, acc)

Overlap(path1, path2, d1, d2, start_time, end_time, safety, step, acc) ==
    Window(path1, path2, d1, d2, start_time, end_time, RSub(end_time, start_time),
           safety, step, acc)

ComparePaths(path1, path2, d1, d2, safety, step, acc) ==
    IF IsDegenerate(path1, path2) THEN acc
    ELSE IF path1 = <<>> \/ path2 = <<>> THEN [acc EXCEPT !.raised = "IndexError"]
    ELSE Overlap(path1, path2, d1, d2, StartTime(path1, path2), EndTime(path1, path2),
                 safety, step, acc)

ComparePair(fleet, d1, d2, safety, step, acc) ==
    ComparePaths(sort_path_by_time(PathOf(fleet, d1)), sort_path_by_time(PathOf(fleet, d2)),
                 d1, d2, safety, step, Compared(acc, d1, d2))

PairBody(fleet, safety, step, i, j, acc) ==
    ComparePair(fleet, drone_names(fleet)[i], drone_names(fleet)[j], safety, step, acc)

(* for i in range(n): for j in range(i + 1, n), 1-based here.  An          *)
(* exception ends the call.                                                *)
RECURSIVE PairLoop(_, _, _, _, _, _)
PairLoop(fleet, safety, step, i, j, acc) ==
    IF acc.raised # NoError \/ i > Len(fleet) THEN acc
    ELSE IF j > Len(fleet)
         THEN PairLoop(fleet, safety, step, i + 1, FirstPartner(i + 1), acc)
    ELSE PairLoop(fleet, safety, step, i, j + 1,
                  PairBody(fleet, safety, step, i, j, acc))

Run(fleet, safety, step) ==
    PairLoop(fleet, safety, step, 1, FirstPartner(1), EmptyAcc)

(* What the call returns, or the exception it raises.                      *)
Report(acc) ==
    IF acc.raised # NoError THEN [status |-> "RAISED", error |-> acc.raised]
    ELSE IF acc.conflicts # <<>>
    THEN [status |-> "CONFLICT", conflicts |-> acc.conflicts]
    ELSE [status |-> "CLEAR"]

check_all_paths_conflict(fleet, safety, step) == Report(Run(fleet, safety, step))

---------------------------------------------------------------------------
(* Inputs.                                                                 *)
Times == {FromInt(t) : t \in 0..MaxTime}

(* Two 2D positions that differ in both coordinates (their distance is     *)
(* irrational), and two 3D ones.                                           *)
P0 == <<FromInt(0), FromInt(1)>>
P1 == <<FromInt(1), FromInt(0)>>
Points2D == {P0, P1}
Q0 == <<FromInt(0), FromInt(1), FromInt(0)>>
Q1 == <<FromInt(1), FromInt(0), FromInt(1)>>
Points3D == {Q0, Q1}

Waypoints2D == {p \o <<t>> : p \in Points2D, t \in Times}

(* Two-waypoint trajectories of positive duration, and P0-to-P1 ones of    *)
(* zero duration.                                                          *)
Legs ==
    {l \in Waypoints2D \X Waypoints2D : RLt(Timestamp(l[1]), Timestamp(l[2]))}
    \cup {<<P0 \o <<t>>, P1 \o <<t>> >> : t \in Times}

PairFleets == {<< <<"A", a>>, <<"B", b>> >> : a \in Legs, b \in Legs}

(* Trajectories over [0, MaxTime] for fleets of three: empty, a single     *)
(* waypoint, holds, a leg given in reverse time order, a dogleg.           *)
TFirst == FromInt(0)
TLast == FromInt(MaxTime)
TrioPaths ==
    {<<>>,
     <<P0 \o <<TFirst>> >>,
     <<P0 \o <<TFirst>>, P0 \o <<TLast>> >>,
     <<P1 \o <<TFirst>>, P1 \o <<TLast>> >>,
     <<P1 \o <<TLast>>, P0 \o <<TFirst>> >>,
     <<P0 \o <<TFirst>>, P1 \o <<FromInt(1)>>, P0 \o <<TLast>> >>}

TrioFleets ==
    {<< <<"A", a>>, <<"B", b>>, <<"C", c>> >> : a \in TrioPaths, b \in TrioPaths, c \in TrioPaths}

Legs3D == {<<a \o <<TFirst>>, b \o <<TLast>> >> : a \in Points3D, b \in Points3D}

Fleets3D == {<< <<"A", a>>, <<"B", b>> >> : a \in Legs3D, b \in Legs3D}

Fleets == PairFleets \cup TrioFleets \cup Fleets3D \cup {<<>>}

SafetyDistances == {<<17, 24>>, <<3, 2>>}

TimeSteps == {<<1, 2>>, <<1, 1>>, <<3, 2>>}

SortedPath(fleet, k) == sort_path_by_time(fleet[k][2])

Pairs(fleet) == {ij \in (1..Len(fleet)) \X (1..Len(fleet)) : ij[1] < ij[2]}

(* The pairs the detector samples: both trajectories of 2 or more          *)
(* waypoints.                                                              *)
FlyingPairs(fleet) ==
    {ij \in Pairs(fleet) : ~IsDegenerate(SortedPath(fleet, ij[1]), SortedPath(fleet, ij[2]))}

WindowStart(fleet, ij) == StartTime(SortedPath(fleet, ij[1]), SortedPath(fleet, ij[2]))

WindowEnd(fleet, ij) == EndTime(SortedPath(fleet, ij[1]), SortedPath(fleet, ij[2]))

Duration(fleet, ij) == RSub(WindowEnd(fleet, ij), WindowStart(fleet, ij))

IsMultiple(s2, s1) == RDiv(s2, s1)[2] = 1

(* The windows of a call whose sample times are rounded sums and whose     *)
(* exact sum reaches end_time.                                             *)
Rounded(start_time, end_time, effective_step) ==
    /\ RLt(start_time, end_time)
    /\ ~Representable(effective_step)
    /\ IsMultiple(RSub(end_time, start_time), effective_step)

Key(start_time, end_time, effective_step) == <<start_time, end_time, effective_step>>

KeyOf(fleet, ij, step) ==
    Key(WindowStart(fleet, ij), WindowEnd(fleet, ij),
        EffectiveStep(step, Duration(fleet, ij)))

(* The pairs whose window the call computes: path[0] exists.               *)
WindowedPairs(fleet) ==
    {ij \in FlyingPairs(fleet) :
        SortedPath(fleet, ij[1]) # <<>> /\ SortedPath(fleet, ij[2]) # <<>>}

RoundedWindows(fleet, step) ==
    {k \in {KeyOf(fleet, ij, step) : ij \in WindowedPairs(fleet)} : Rounded(k[1], k[2], k[3])}

Init ==
    /\ all_drones_paths \in Fleets
    /\ safety_distance \in SafetyDistances
    /\ time_step \in TimeSteps
    /\ overshoot \in SUBSET RoundedWindows(all_drones_paths, time_step)
    /\ report = [status |-> "CLEAR"]
    /\ compared = <<>>
    /\ sampled = <<>>
    /\ path = <<>>
    /\ query_t = Zero
    /\ position = None
    /\ pc = "input"

Returned(run) ==
    /\ report' = Report(run)
    /\ compared' = run.compared
    /\ sampled' = run.sampled

Detect ==
    /\ pc = "input"
    /\ Returned(Run(all_drones_paths, safety_distance, time_step))
    /\ pc' = "detected"
    /\ UNCHANGED <<all_drones_paths, safety_distance, time_step, overshoot, path, query_t,
                   position>>

Next == Detect

Spec == Init /\ [][Next]_vars

---------------------------------------------------------------------------
(* get_position_at_time on a trajectory normalised by sort_path_by_time,   *)
(* as check_all_paths_conflict and plot_paths do before they read one.     *)
Waypoints3D == {p \o <<t>> : p \in Points3D, t \in Times}

RawPaths ==
    UNION {[1..n -> Waypoints2D] : n \in 0..MaxLen}
    \cup UNION {[1..n -> Waypoints3D] : n \in 1..2}

(* Waypoint times, the midpoints between them, and a time on either side.  *)
QueryTimes == {Rat(k, 2) : k \in -1..(2 * MaxTime + 1)}

InitPath ==
    /\ all_drones_paths \in {<< <<"A", raw>> >> : raw \in RawPaths}
    /\ query_t \in QueryTimes
    /\ safety_distance = Zero
    /\ time_step = Zero
    /\ overshoot = {}
    /\ report = [status |-> "CLEAR"]
    /\ compared = <<>>
    /\ sampled = <<>>
    /\ path = <<>>
    /\ position = None
    /\ pc = "input"

Looked(sortedPath, t) ==
    /\ path' = sortedPath
    /\ position' = get_position_at_time(sortedPath, t)

Query ==
    /\ pc = "input"
    /\ Looked(sort_path_by_time(PathOf(all_drones_paths, "A")), query_t)
    /\ pc' = "queried"
    /\ UNCHANGED <<all_drones_paths, safety_distance, time_step, report, compared,
                   sampled, overshoot, query_t>>

NextPath == Query

SpecPath == InitPath /\ [][NextPath]_vars

---------------------------------------------------------------------------
(* Properties of get_position_at_time, checked under SpecPath.             *)
Coordinates(p) == [k \in 1..Dim(p) |-> p[k]]

IsTimeSorted(pth) ==
    \A i \in 1..(Len(pth) - 1) : RLe(Timestamp(pth[i]), Timestamp(pth[i + 1]))

(* The first waypoint of pth that bears the timestamp of waypoint i.       *)
FirstWithTimeOf(pth, i) ==
    CHOOSE f \in 1..i :
        /\ Timestamp(pth[f]) = Timestamp(pth[i])
        /\ \A g \in 1..(f - 1) : Timestamp(pth[g]) # Timestamp(pth[i])

(* C2 as stated: on a sorted trajectory of 2 or more waypoints, the        *)
(* position at the timestamp of waypoint i is the position of waypoint i,  *)
(* for every i, duplicate timestamps included.                             *)
C2_ExactAtEveryWaypoint ==
    (pc = "queried" /\ Len(path) >= 2) =>
        \A i \in 1..Len(path) :
            (query_t = Timestamp(path[i])) => position = Coordinates(path[i])

(* C2 amended: the position at the timestamp of waypoint i is the position *)
(* of the first waypoint of the sorted trajectory that bears that          *)
(* timestamp; it is waypoint i's own position when no earlier waypoint     *)
(* shares its timestamp.                                                   *)
C2_ExactAtFirstOfTimestamp ==
    (pc = "queried" /\ Len(path) >= 2) =>
        /\ IsTimeSorted(path)
        /\ \A i \in 1..Len(path) :
               (query_t = Timestamp(path[i])) =>
                   position = Coordinates(path[FirstWithTimeOf(path, i)])

(* A query at a timestamp that two waypoints with different positions      *)
(* share, on a trajectory that also has a waypoint at another time.        *)
C2_Witness ==
    /\ pc = "queried"
    /\ Len(path) = 3
    /\ \E i \in 2..3 :
           /\ query_t = Timestamp(path[i])
           /\ Timestamp(path[i - 1]) = Timestamp(path[i])
           /\ Coordinates(path[i - 1]) # Coordinates(path[i])
           /\ position = Coordinates(path[FirstWithTimeOf(path, i)])
    /\ \E i \in 1..3 : Timestamp(path[i]) # query_t

(* C3: a trajectory of 2 or more sorted waypoints has a position at t      *)
(* exactly when first.timestamp <= t <= last.timestamp; one of fewer than  *)
(* 2 waypoints has none at any t.                                          *)
C3_DefinedExactlyInsideSpan ==
    (pc = "queried") =>
        /\ Len(path) >= 2 =>
               ((position # None) <=>
                    (RLe(Timestamp(path[1]), query_t)
                     /\ RLe(query_t, Timestamp(path[Len(path)]))))
        /\ Len(path) < 2 => position = None

(* A position found at the last timestamp of a three-waypoint trajectory   *)
(* whose input was not in time order.                                      *)
C3_Witness ==
    /\ pc = "queried"
    /\ Len(path) = 3
    /\ path # PathOf(all_drones_paths, "A")
    /\ RLt(Timestamp(path[1]), Timestamp(path[3]))
    /\ query_t = Timestamp(path[3])
    /\ position # None

---------------------------------------------------------------------------
(* Properties of check_all_paths_conflict, checked under Spec.             *)
Detected == pc = "detected"

Count(rep) == IF rep.status = "CONFLICT" THEN Len(rep.conflicts) ELSE 0

Events(rep) == IF rep.status = "CONFLICT" THEN rep.conflicts ELSE <<>>

(* The <<pair, sample time>> of the iterations that reported a conflict.   *)
Hits(smp) == {<<smp[n].between, smp[n].t>> : n \in {m \in DOMAIN smp : smp[m].hit}}

IsHit(e) == e.hit

HitSeq(smp) == SelectSeq(smp, IsHit)

IndexOf(fleet, name) == CHOOSE k \in 1..Len(fleet) : fleet[k][1] = name

Label(fleet, ij) == <<fleet[ij[1]][1], fleet[ij[2]][1]>>

(* No compared pair's overlap duration D has s1 < D <= s2: the two steps   *)
(* are both replaced by D/20 or both used as given.                        *)
SameRegime(fleet, s1, s2) ==
    \A ij \in FlyingPairs(fleet) :
        ~(RLt(s1, Duration(fleet, ij)) /\ RLe(Duration(fleet, ij), s2))

(* C1 as stated: for s1 < s2, the call with time_step = s1 reports at      *)
(* least as many conflicts as the call with time_step = s2.                *)
C1_FinerStepNeverFewer ==
    Detected =>
        \A s1 \in TimeSteps :
            RLt(s1, time_step) =>
                Count(check_all_paths_conflict(all_drones_paths, safety_distance, s1))
                    >= Count(report)

FinerCovers(finer) ==
    /\ Hits(sampled) \subseteq Hits(finer.sampled)
    /\ Len(finer.conflicts) >= Count(report)

(* C1 amended: for s1 < s2 with s2 an integer multiple of s1 and no        *)
(* compared pair whose overlap duration D has s1 < D <= s2, every conflict *)
(* reported with time_step = s2 (same pair, same sample time) is reported  *)
(* with time_step = s1, which so reports at least as many.                 *)
C1_DividingStepNeverFewer ==
    Detected =>
        \A s1 \in TimeSteps :
            (/\ RLt(s1, time_step)
             /\ IsMultiple(time_step, s1)
             /\ SameRegime(all_drones_paths, s1, time_step)) =>
                FinerCovers(Run(all_drones_paths, safety_distance, s1))

(* A call with a step that a finer, dividing step of the same regime       *)
(* strictly improves on.                                                   *)
C1_Witness ==
    /\ Detected
    /\ Count(report) >= 1
    /\ \E s1 \in TimeSteps :
           /\ RLt(s1, time_step)
           /\ IsMultiple(time_step, s1)
           /\ SameRegime(all_drones_paths, s1, time_step)
           /\ Count(check_all_paths_conflict(all_drones_paths, safety_distance, s1))
                  > Count(report)

Swapped(fleet) == <<fleet[2], fleet[1]>>

Reversed(pair) == <<pair[2], pair[1]>>

SameButLabel(e, f) ==
    /\ e.time = f.time
    /\ e.distance = f.distance
    /\ e.between = Reversed(f.between)

MirrorsFully(other) ==
    /\ other.status = report.status
    /\ Count(other) = Count(report)
    /\ \A k \in 1..Count(report) :
           /\ SameButLabel(other.conflicts[k], report.conflicts[k])
           /\ other.conflicts[k].location = report.conflicts[k].location

Mirrors(other) ==
    /\ other.status = report.status
    /\ Count(other) = Count(report)
    /\ \A k \in 1..Count(report) : SameButLabel(other.conflicts[k], report.conflicts[k])

(* C4 as stated: the fleets (A, B) and (B, A) yield the same status and    *)
(* the same events in every field, but for the order of 'between'.         *)
C4_SwapSameInEveryField ==
    (Detected /\ Len(all_drones_paths) = 2) =>
        MirrorsFully(check_all_paths_conflict(Swapped(all_drones_paths),
                                              safety_distance, time_step))

(* C4 amended: the fleets (A, B) and (B, A) yield the same status and the  *)
(* same number of events, equal in time and distance with 'between'        *)
(* reversed; 'location' is the position of the aircraft listed first.      *)
C4_SwapSameTimeAndDistance ==
    (Detected /\ Len(all_drones_paths) = 2) =>
        /\ Mirrors(check_all_paths_conflict(Swapped(all_drones_paths),
                                            safety_distance, time_step))
        /\ Count(report) = Len(HitSeq(sampled))
        /\ \A k \in 1..Count(report) :
               report.conflicts[k].location =
                   [c \in 1..Len(report.conflicts[k].location) |->
                       Round(get_position_at_time(SortedPath(all_drones_paths, 1),
                                                  HitSeq(sampled)[k].t)[c],
                             RoundDigits)]

(* A conflict between two aircraft at different positions: the two orders  *)
(* report different locations.                                             *)
C4_Witness ==
    /\ Detected
    /\ Len(all_drones_paths) = 2
    /\ report.status = "CONFLICT"
    /\ check_all_paths_conflict(Swapped(all_drones_paths), safety_distance,
                                time_step).conflicts[1].location
           # report.conflicts[1].location

SmallerRadiusCovered(smaller) ==
    /\ Hits(smaller.sampled) \subseteq Hits(sampled)
    /\ Len(smaller.conflicts) <= Count(report)

(* C5: for r1 < r2 the events reported with safety_distance = r1 are among *)
(* those reported with r2 (same pair, same sample time), so they are no    *)
(* more.                                                                   *)
C5_SmallerRadiusSubset ==
    Detected =>
        \A r1 \in SafetyDistances :
            RLt(r1, safety_distance) =>
                SmallerRadiusCovered(Run(all_drones_paths, r1, time_step))

(* A call whose smaller radius reports some of its events but not all.     *)
C5_Witness ==
    /\ Detected
    /\ \E r1 \in SafetyDistances :
           /\ RLt(r1, safety_distance)
           /\ Count(check_all_paths_conflict(all_drones_paths, r1, time_step)) >= 1
           /\ Count(check_all_paths_conflict(all_drones_paths, r1, time_step))
                  < Count(report)

SampledAt(ij, t) ==
    \E n \in DOMAIN sampled :
        sampled[n].between = Label(all_drones_paths, ij) /\ sampled[n].t = t

ReportedAt(ij, t) ==
    \E k \in 1..Count(report) :
        /\ report.conflicts[k].between = Label(all_drones_paths, ij)
        /\ report.conflicts[k].time = Round(t, RoundDigits)

InConflictAt(ij, t) ==
    IsConflict(distance(get_position_at_time(SortedPath(all_drones_paths, ij[1]), t),
                        get_position_at_time(SortedPath(all_drones_paths, ij[2]), t)),
               safety_distance)

KthOfTwenty(start, duration, k) ==
    RAdd(start, RMul(FromInt(k), RDiv(duration, FromInt(20))))

AdaptiveSampling(ij, start, end, duration) ==
    /\ EffectiveStep(time_step, duration) = RDiv(duration, FromInt(20))
    /\ \A k \in 1..19 :
           /\ RLt(start, KthOfTwenty(start, duration, k))
           /\ RLt(KthOfTwenty(start, duration, k), end)
           /\ SampledAt(ij, KthOfTwenty(start, duration, k))
    /\ SampledAt(ij, RAdd(start, RDiv(duration, FromInt(2))))
    /\ InConflictAt(ij, RAdd(start, RDiv(duration, FromInt(2))))
           => ReportedAt(ij, RAdd(start, RDiv(duration, FromInt(2))))

(* C6: for a pair of trajectories of 2 or more waypoints with overlap      *)
(* duration D > 0 and time_step >= D, the effective step is D/20, the loop *)
(* samples start + k*D/20 for k = 1..19, all strictly inside (start, end), *)
(* and a conflict at the midpoint start + D/2 is reported.                 *)
C6_CoarseStepSamplesTwentieths ==
    Detected =>
        \A ij \in FlyingPairs(all_drones_paths) :
            (/\ RLt(Zero, Duration(all_drones_paths, ij))
             /\ RLe(Duration(all_drones_paths, ij), time_step)) =>
                AdaptiveSampling(ij, WindowStart(all_drones_paths, ij),
                                 WindowEnd(all_drones_paths, ij),
                                 Duration(all_drones_paths, ij))

(* A step no smaller than the overlap, a conflict reported at the midpoint *)
(* of the window, a sample of the same pair without conflict, and the      *)
(* rounded sum passing end_time: 19 samples, none at the end boundary.     *)
C6_Witness ==
    /\ Detected
    /\ \E ij \in FlyingPairs(all_drones_paths) :
           /\ RLt(Zero, Duration(all_drones_paths, ij))
           /\ RLe(Duration(all_drones_paths, ij), time_step)
           /\ ReportedAt(ij, RAdd(WindowStart(all_drones_paths, ij),
                                  RDiv(Duration(all_drones_paths, ij), FromInt(2))))
           /\ \E n \in DOMAIN sampled :
                  sampled[n].between = Label(all_drones_paths, ij) /\ ~sampled[n].hit
           /\ ~SampledAt(ij, WindowEnd(all_drones_paths, ij))

(* C7: the distance stored in every reported event, rounded to 2 decimal   *)
(* places as it is, is <= safety_distance.  The code tests the unrounded   *)
(* distance and stores round(dist, 2), which rounds up past a              *)
(* safety_distance that lies between dist and the next hundredth.          *)
C7_StoredDistanceWithinRadius ==
    Detected =>
        \A k \in 1..Count(report) : RLe(report.conflicts[k].distance, safety_distance)

(* What the stored distance does satisfy: it is <= safety_distance        *)
(* rounded to 2 decimal places.                                            *)
StoredDistanceWithinRoundedRadius ==
    Detected =>
        \A k \in 1..Count(report) :
            RLe(report.conflicts[k].distance, Round(safety_distance, RoundDigits))

Without(fleet, k) == SubSeq(fleet, 1, k - 1) \o SubSeq(fleet, k + 1, Len(fleet))

Names(e) == {e.between[1], e.between[2]}

DegenerateIgnored(k) ==
    /\ report.status # "RAISED"
    /\ \A n \in 1..Count(report) : all_drones_paths[k][1] \notin Names(report.conflicts[n])
    /\ report = check_all_paths_conflict(Without(all_drones_paths, k),
                                         safety_distance, time_step)

(* C8: an aircraft whose trajectory has 0 or 1 waypoints is named in no    *)
(* event, the call raises no error, and the report is the report of the    *)
(* fleet without that aircraft.                                            *)
C8_DegenerateAircraftIgnored ==
    Detected =>
        \A k \in 1..Len(all_drones_paths) :
            Len(all_drones_paths[k][2]) < 2 => DegenerateIgnored(k)

(* A fleet of three whose second aircraft has a single waypoint, at the    *)
(* position the first one holds, and whose other two are in conflict.      *)
C8_Witness ==
    /\ Detected
    /\ Len(all_drones_paths) = 3
    /\ Len(all_drones_paths[2][2]) = 1
    /\ Len(all_drones_paths[1][2]) = 2
    /\ Coordinates(all_drones_paths[1][2][1]) = Coordinates(all_drones_paths[2][2][1])
    /\ Coordinates(all_drones_paths[1][2][2]) = Coordinates(all_drones_paths[2][2][1])
    /\ report.status = "CONFLICT"

InsideWindow(e) ==
    /\ RLt(WindowStart(all_drones_paths,
                       <<IndexOf(all_drones_paths, e.between[1]),
                         IndexOf(all_drones_paths, e.between[2])>>), e.t)
    /\ RLe(e.t, WindowEnd(all_drones_paths,
                          <<IndexOf(all_drones_paths, e.between[1]),
                            IndexOf(all_drones_paths, e.between[2])>>))

NeverSampled(ij) ==
    /\ \A n \in DOMAIN sampled : sampled[n].between # Label(all_drones_paths, ij)
    /\ \A k \in 1..Count(report) :
           report.conflicts[k].between # Label(all_drones_paths, ij)

(* C9: every sample time t of a pair has start < t <= end for that pair's  *)
(* window, and a pair with end - start <= 0 is never sampled and yields no *)
(* event.                                                                  *)
C9_SamplesInsideWindow ==
    Detected =>
        /\ \A n \in DOMAIN sampled : InsideWindow(sampled[n])
        /\ \A ij \in FlyingPairs(all_drones_paths) :
               RLe(Duration(all_drones_paths, ij), Zero) => NeverSampled(ij)

(* Two missions that touch at a single instant, at which both aircraft are *)
(* at the same position, and no event.                                     *)
C9_Witness ==
    /\ Detected
    /\ Len(all_drones_paths) = 2
    /\ FlyingPairs(all_drones_paths) = {<<1, 2>>}
    /\ Duration(all_drones_paths, <<1, 2>>) = Zero
    /\ RLt(Timestamp(SortedPath(all_drones_paths, 1)[1]),
           Timestamp(SortedPath(all_drones_paths, 2)[1]))
    /\ get_position_at_time(SortedPath(all_drones_paths, 1),
                            WindowStart(all_drones_paths, <<1, 2>>))
           = get_position_at_time(SortedPath(all_drones_paths, 2),
                                  WindowStart(all_drones_paths, <<1, 2>>))
    /\ report.status = "CLEAR"

PairOf(fleet, label) == <<IndexOf(fleet, label[1]), IndexOf(fleet, label[2])>>

LexBefore(a, b) == a[1] < b[1] \/ (a[1] = b[1] /\ a[2] < b[2])

(* C10: each unordered pair is compared exactly once, as (d1, d2) with d1  *)
(* before d2 in the fleet's order, in lexicographic (i, j) order; the      *)
(* events are those of the loop's iterations in order, so the events of a  *)
(* pair precede those of every later pair and, within a pair, are in       *)
(* strictly increasing sample time.                                        *)
C10_DiscoveryOrder ==
    Detected =>
        /\ {compared[n] : n \in DOMAIN compared}
               = {Label(all_drones_paths, ij) : ij \in Pairs(all_drones_paths)}
        /\ \A n \in DOMAIN compared : \A m \in DOMAIN compared :
               n < m => LexBefore(PairOf(all_drones_paths, compared[n]),
                                  PairOf(all_drones_paths, compared[m]))
        /\ \A n \in DOMAIN sampled : \A m \in DOMAIN sampled :
               n < m =>
                   \/ LexBefore(PairOf(all_drones_paths, sampled[n].between),
                                PairOf(all_drones_paths, sampled[m].between))
                   \/ /\ sampled[n].between = sampled[m].between
                      /\ RLt(sampled[n].t, sampled[m].t)
        /\ report.status # "RAISED"
        /\ Count(report) = Len(HitSeq(sampled))
        /\ \A k \in 1..Count(report) :
               /\ report.conflicts[k].between = HitSeq(sampled)[k].between
               /\ report.conflicts[k].time = Round(HitSeq(sampled)[k].t, RoundDigits)

(* A report with events of two pairs, two or more of them of the first.    *)
C10_Witness ==
    /\ Detected
    /\ Len(all_drones_paths) = 3
    /\ Count(report) >= 3
    /\ report.conflicts[1].between = report.conflicts[2].between
    /\ report.conflicts[1].between # report.conflicts[Count(report)].between

===========================================================================
